---- MODULE Spec2Model ----
(***************************************************************************)
(* Model of src/app.py, the Lowe's how-to semantic search app.             *)
(*                                                                         *)
(*   - search(query, documents, doc_embeddings, model, top_k) is modelled  *)
(*     as the operator  search  and applied by the actions SearchCall and  *)
(*     SearchAgain (specifications SpecSearch and SpecRepeat);             *)
(*   - main(), run once per user interaction by each browser session, and  *)
(*     the two memoised functions load_model / create_embeddings are       *)
(*     modelled by the session actions of the specification Spec.          *)
(*                                                                         *)
(* Representation.                                                         *)
(*   A text is a tuple of tokens; the empty string is <<>>.                *)
(*   A document body is a run-length encoded string: a sequence of runs    *)
(*   [ws |-> whether the run is whitespace, len |-> its length in chars].  *)
(*   An embedding is a pair of integers.  A cosine c is held as the        *)
(*   integer sign(c) * floor(Scale * c^2), which orders the vectors used   *)
(*   here exactly as c does and ties exactly where c ties.                 *)
(***************************************************************************)
EXTENDS Integers, Sequences, FiniteSets

\* ------------------------------------------------------------------ bounds
MaxDocs == 3
MaxTopK == 4
NumSessions == 2
MaxCalls == 2
Scale == 4

\* ------------------------------------------------------ program constants
SliderMin == 1
SliderMax == 5

VARIABLES
  documents,       \* the corpus: SAMPLE_DOCUMENTS / search's documents argument
  model,           \* the sentence transformer: which weights it holds
  doc_embeddings,  \* search's doc_embeddings argument in a direct call
  argsort_ties,    \* the order in which this build's np.argsort leaves equal keys
  call,            \* the last direct call of search and its outcome
  earlier,         \* an earlier direct call, remembered for comparison
  cache,           \* Streamlit's memo of load_model and create_embeddings
  lock,            \* holder of each memo entry's compute lock (0: free)
  calls,           \* how often each memoised function body has run
  pc,              \* each session's position in main()
  session_query,   \* st.session_state.query of each session ('' when unset)
  search_button,   \* whether this run was triggered by the Search button
  loaded,          \* main's local  model
  embeddings,      \* main's local  doc_embeddings
  waited,          \* whether this run missed the create_embeddings memo
  page             \* what the run has rendered below the search box

vars == <<documents, model, doc_embeddings, argsort_ties, call, earlier, cache,
          lock, calls, pc, session_query, search_button, loaded, embeddings,
          waited, page>>

inputs == <<documents, model, doc_embeddings, argsort_ties>>
app == <<cache, lock, calls, pc, session_query, search_button, loaded,
         embeddings, waited, page>>

\* ----------------------------------------------------------------- helpers
Min(a, b) == IF a <= b THEN a ELSE b
Max(a, b) == IF a >= b THEN a ELSE b

TieOrders(n) ==
  {p \in [1..n -> 1..n] : \A i, j \in 1..n : p[i] = p[j] => i = j}

Identity(n) == [i \in 1..n |-> i]

\* ------------------------------------------------------------------ corpus
Ws(n) == [ws |-> TRUE, len |-> n]
Word(n) == [ws |-> FALSE, len |-> n]

Titles == << "Sprinkler System", "Riding Lawn Mower", "Leaf Blower",
             "Fertilize Your Lawn", "Edge Your Lawn", "Vertical Garden",
             "Lawn for Spring", "Edge a Garden Bed", "Repair Bare Spots" >>

\* A body as the source lays it out: a newline and eight blanks, the text,
\* a newline and eight blanks.  Bodies grow with the index so that the
\* corpus holds bodies below and above 500 characters.
Content(i) == << Ws(9), Word(200 * i), Ws(1), Word(200), Ws(9) >>

SampleDocument(i) ==
  [title |-> Titles[i], url |-> <<"https://www.lowes.com/n/how-to", i>>,
   content |-> Content(i)]

SAMPLE_DOCUMENTS(n) == [i \in 1..n |-> SampleDocument(i)]

\* f"{doc['title']} {doc['content']}"
DocText(doc) == <<doc.title, " ", doc.content>>

\* ------------------------------------------------------------- the embedder
Queries == { <<>>, <<"lawn">>, <<"mow">> }
example_queries == { <<"lawn">> }

Vectors == { <<0, 0>>, <<1, 0>>, <<-1, 1>> }

TitleIndex(title) == CHOOSE i \in 1..Len(Titles) : Titles[i] = title

\* Two sets of weights, "A" and "B".  Under each, the embedding is a function
\* of the text alone: of a query's token, of a document's title.
Models == {"A", "B"}

Embedding(m, x) ==
  IF m = "A"
  THEN IF Len(x) = 0 THEN <<0, 0>>
       ELSE IF Len(x) = 1
            THEN (IF x[1] = "lawn" THEN <<1, 0>> ELSE <<-1, 1>>)
            ELSE IF TitleIndex(x[1]) % 3 = 0 THEN <<-1, 1>> ELSE <<1, 0>>
  ELSE IF Len(x) = 0 THEN <<1, 0>>
       ELSE IF Len(x) = 1
            THEN (IF x[1] = "lawn" THEN <<-1, 1>> ELSE <<0, 0>>)
            ELSE IF TitleIndex(x[1]) % 2 = 0 THEN <<0, 0>> ELSE <<-1, 1>>

\* model.encode(texts)
encode(m, texts) == [i \in 1..Len(texts) |-> Embedding(m, texts[i])]

\* ------------------------------------------------------- cosine similarity
Dot(u, v) == u[1] * v[1] + u[2] * v[2]

Cosine(u, v) ==
  IF Dot(u, u) = 0 \/ Dot(v, v) = 0 THEN 0
  ELSE LET d == Dot(u, v)
           m == (Scale * d * d) \div (Dot(u, u) * Dot(v, v))
       IN IF d < 0 THEN 0 - m ELSE m

\* sklearn validates both arguments: each needs at least one row.
check_pairwise_arrays(X, Y) == Len(X) >= 1 /\ Len(Y) >= 1

cosine_similarity(X, Y) ==
  [i \in 1..Len(X) |-> [j \in 1..Len(Y) |-> Cosine(X[i], Y[j])]]

\* ------------------------------------------------------------------ sorting
TiePosition(i) == CHOOSE p \in DOMAIN argsort_ties : argsort_ties[p] = i

\* np.argsort(a): the indices of a in ascending order of a.  The default
\* sort kind is not stable: equal keys come out in an order the build
\* fixes, here argsort_ties.
ArgsortBefore(a, i, j) ==
  a[i] < a[j] \/ (a[i] = a[j] /\ TiePosition(i) < TiePosition(j))

argsort(a) ==
  [r \in 1..Len(a) |->
     CHOOSE i \in 1..Len(a) :
       Cardinality({j \in 1..Len(a) : ArgsortBefore(a, j, i)}) = r - 1]

NoReverse(s) == s

\* s[::-1]
Reverse(s) == [i \in 1..Len(s) |-> s[Len(s) + 1 - i]]

SliceLast(s, k) ==
  IF k >= 0 THEN SubSeq(s, Len(s) - Min(k, Len(s)) + 1, Len(s))
  ELSE SubSeq(s, 1, Max(0, Len(s) + k))

\* s[:k]
Slice(s, k) ==
  IF k >= 0 THEN SubSeq(s, 1, Min(k, Len(s)))
  ELSE SubSeq(s, 1, Max(0, Len(s) + k))

\* ------------------------------------------------------------------ strings
RECURSIVE lstrip(_)
lstrip(s) ==
  IF s = <<>> THEN s ELSE IF Head(s).ws THEN lstrip(Tail(s)) ELSE s

RECURSIVE rstrip(_)
rstrip(s) ==
  IF s = <<>> THEN s
  ELSE IF s[Len(s)].ws THEN rstrip(SubSeq(s, 1, Len(s) - 1)) ELSE s

\* str.strip()
strip(s) == rstrip(lstrip(s))

RECURSIVE StrLen(_)
StrLen(s) == IF s = <<>> THEN 0 ELSE Head(s).len + StrLen(Tail(s))

\* ------------------------------------------------------------------- search
RankFromIndex(results, idx) == idx

\* 'rank': len(results) + 1
Rank(results, idx) == Len(results) + 1

\* the loop that builds the result records
RECURSIVE build_results(_, _, _, _)
build_results(top_indices, docs, similarities, results) ==
  IF top_indices = <<>> THEN results
  ELSE LET idx == Head(top_indices)
       IN build_results(Tail(top_indices), docs, similarities,
            Append(results,
              [rank |-> Rank(results, idx),
               title |-> docs[idx].title,
               url |-> docs[idx].url,
               similarity_score |-> similarities[idx],
               content |-> strip(docs[idx].content)]))

\* What a call of search comes to: the list it returns, or the exception it
\* raises.  encoded lists the texts it handed to model.encode and scores is
\* the similarity it computed for each document, in corpus order.
Returned(results, encoded, scores) ==
  [status |-> "returned", results |-> results, encoded |-> encoded,
   scores |-> scores]
Raised(exception, encoded) ==
  [status |-> exception, results |-> <<>>, encoded |-> encoded,
   scores |-> <<>>]

search(query, docs, embs, m, top_k) ==
  LET query_embedding == encode(m, <<query>>)
  IN IF ~check_pairwise_arrays(query_embedding, embs)
     THEN Raised("ValueError", <<query>>)
     ELSE LET similarities == cosine_similarity(query_embedding, embs)[1]
              top_indices == Slice(Reverse(argsort(similarities)), top_k)
          IN Returned(build_results(top_indices, docs, similarities, <<>>),
                      <<query>>, similarities)

\* ------------------------------------------------------ direct calls of search
NoCall == [made |-> FALSE, query |-> <<>>, top_k |-> 0,
           outcome |-> Raised("none", <<>>), between |-> FALSE]

CallOf(query, top_k) ==
  [made |-> TRUE, query |-> query, top_k |-> top_k,
   outcome |-> search(query, documents, doc_embeddings, model, top_k),
   between |-> FALSE]

TopKs == 0..MaxTopK

SearchSortsCorpus(query, top_k) ==
  /\ call' = CallOf(query, top_k)
  /\ documents' = Reverse(documents)
  /\ UNCHANGED <<model, doc_embeddings, argsort_ties>>

\* search reads its arguments and assigns none of them
Search(query, top_k) ==
  /\ call' = CallOf(query, top_k)
  /\ UNCHANGED inputs

SearchCall(query, top_k) ==
  /\ Search(query, top_k)
  /\ UNCHANGED <<earlier, app>>

\* a call made after others, one of which is kept for comparison
SearchAgain(query, top_k) ==
  /\ Search(query, top_k)
  /\ \/ earlier' = call'
     \/ /\ earlier.made
        /\ earlier' = [earlier EXCEPT !.between =
                         @ \/ query # earlier.query \/ top_k # earlier.top_k]
  /\ UNCHANGED app

\* ------------------------------------------------- the memoised functions
Sessions == 1..NumSessions
CachedFunctions == {"load_model", "create_embeddings"}

Absent == [present |-> FALSE, value |-> <<>>]
Present(v) == [present |-> TRUE, value |-> v]

\* create_embeddings(_model): the embedding of every document's title and body
create_embeddings(m) ==
  encode(m, [i \in 1..Len(documents) |-> DocText(documents[i])])

\* the body of the memoised function f, run by session t
FunctionBody(f, t) ==
  IF f = "load_model" THEN model ELSE create_embeddings(loaded[t])

Idle == <<"main", "idle">>
Input == <<"main", "input">>
At(f, step) == <<f, step>>
After(f) == IF f = "load_model" THEN At("create_embeddings", "read") ELSE Input

\* the call returns v to main, which binds it to its local
Bind(f, t, v) ==
  IF f = "load_model"
  THEN loaded' = [loaded EXCEPT ![t] = v] /\ UNCHANGED embeddings
  ELSE embeddings' = [embeddings EXCEPT ![t] = v] /\ UNCHANGED loaded

Waits(f, t) ==
  IF f = "create_embeddings"
  THEN waited' = [waited EXCEPT ![t] = TRUE]
  ELSE UNCHANGED waited

\* the memo is read first, outside any lock
CacheRead(f, t) ==
  /\ pc[t] = At(f, "read")
  /\ IF cache[f].present
     THEN /\ Bind(f, t, cache[f].value)
          /\ pc' = [pc EXCEPT ![t] = After(f)]
          /\ UNCHANGED waited
     ELSE /\ pc' = [pc EXCEPT ![t] = At(f, "lock")]
          /\ Waits(f, t)
          /\ UNCHANGED <<loaded, embeddings>>
  /\ UNCHANGED <<inputs, call, earlier, cache, lock, calls, session_query,
                 search_button, page>>

\* on a miss the session takes the entry's compute lock
CacheLock(f, t) ==
  /\ pc[t] = At(f, "lock")
  /\ lock[f] = 0
  /\ lock' = [lock EXCEPT ![f] = t]
  /\ pc' = [pc EXCEPT ![t] = At(f, "reread")]
  /\ UNCHANGED <<inputs, call, earlier, cache, calls, session_query,
                 search_button, loaded, embeddings, waited, page>>

CacheRereadSkipped(f, t) ==
  /\ pc[t] = At(f, "reread")
  /\ pc' = [pc EXCEPT ![t] = At(f, "compute")]
  /\ UNCHANGED <<inputs, call, earlier, cache, lock, calls, session_query,
                 search_button, loaded, embeddings, waited, page>>

\* and reads the memo again under the lock
CacheReread(f, t) ==
  /\ pc[t] = At(f, "reread")
  /\ IF cache[f].present
     THEN /\ Bind(f, t, cache[f].value)
          /\ lock' = [lock EXCEPT ![f] = 0]
          /\ pc' = [pc EXCEPT ![t] = After(f)]
     ELSE /\ pc' = [pc EXCEPT ![t] = At(f, "compute")]
          /\ UNCHANGED <<lock, loaded, embeddings>>
  /\ UNCHANGED <<inputs, call, earlier, cache, calls, session_query,
                 search_button, waited, page>>

\* still absent: the function body runs, once more
CacheCompute(f, t) ==
  /\ pc[t] = At(f, "compute")
  /\ calls[f] < MaxCalls
  /\ calls' = [calls EXCEPT ![f] = @ + 1]
  /\ Bind(f, t, FunctionBody(f, t))
  /\ pc' = [pc EXCEPT ![t] = At(f, "write")]
  /\ UNCHANGED <<inputs, call, earlier, cache, lock, session_query,
                 search_button, waited, page>>

\* its value is stored and the lock released
CacheWrite(f, t) ==
  /\ pc[t] = At(f, "write")
  /\ cache' = [cache EXCEPT ![f] =
                 Present(IF f = "load_model" THEN loaded[t] ELSE embeddings[t])]
  /\ lock' = [lock EXCEPT ![f] = 0]
  /\ pc' = [pc EXCEPT ![t] = After(f)]
  /\ UNCHANGED <<inputs, call, earlier, calls, session_query, search_button,
                 loaded, embeddings, waited, page>>

\* --------------------------------------------------------------------- main
\* What a run has put on the page: nothing, the warning, or the result cards
\* and statistics.  encoded and scores record what the run's search embedded
\* and scored.
Blank == [kind |-> "blank", query |-> <<>>, cards |-> <<>>,
          encoded |-> <<>>, scores |-> <<>>]
Warning(query) == [kind |-> "warning", query |-> query, cards |-> <<>>,
                   encoded |-> <<>>, scores |-> <<>>]

\* the cards of the results, then the statistics, which read results[0]
Rendered(query, out) ==
  [kind |-> IF out.status # "returned" THEN out.status
            ELSE IF out.results = <<>> THEN "IndexError" ELSE "results",
   query |-> query, cards |-> out.results, encoded |-> out.encoded,
   scores |-> out.scores]

\* a user interaction reruns main from the top
Rerun(t, button, q) ==
  /\ pc[t] = Idle
  /\ session_query' = [session_query EXCEPT ![t] = q]
  /\ search_button' = [search_button EXCEPT ![t] = button]
  /\ loaded' = [loaded EXCEPT ![t] = ""]
  /\ embeddings' = [embeddings EXCEPT ![t] = <<>>]
  /\ waited' = [waited EXCEPT ![t] = FALSE]
  /\ page' = [page EXCEPT ![t] = Blank]
  /\ pc' = [pc EXCEPT ![t] = At("load_model", "read")]
  /\ UNCHANGED <<inputs, call, earlier, cache, lock, calls>>

\* one of the example buttons: st.session_state.query = query
ClickExample(t, q) == Rerun(t, FALSE, q)

\* the Search button
ClickSearch(t) == Rerun(t, TRUE, session_query[t])

\* any other widget: the slider, the text box
Interact(t) == Rerun(t, FALSE, session_query[t])

Slider == SliderMin..SliderMax

Searched(t, query, num_results) ==
  Rendered(query,
           search(query, documents, embeddings[t], loaded[t], num_results))

SearchInputUnguarded(t, query, num_results) ==
  /\ pc[t] = Input
  /\ IF search_button[t]
     THEN page' = [page EXCEPT ![t] = Searched(t, query, num_results)]
     ELSE UNCHANGED page
  /\ pc' = [pc EXCEPT ![t] = Idle]
  /\ UNCHANGED <<inputs, call, earlier, cache, lock, calls, session_query,
                 search_button, loaded, embeddings, waited>>

\* the search box, the Search button's two branches and the rendering of
\* the results.  query is what the box holds (the session's query by default,
\* or what the user typed); num_results is the slider's value, read in the
\* sidebar and used only here.
SearchInput(t, query, num_results) ==
  /\ pc[t] = Input
  /\ IF search_button[t] /\ query # <<>>
     THEN page' = [page EXCEPT ![t] = Searched(t, query, num_results)]
     ELSE IF search_button[t] /\ query = <<>>
          THEN page' = [page EXCEPT ![t] = Warning(query)]
          ELSE UNCHANGED page
  /\ pc' = [pc EXCEPT ![t] = Idle]
  /\ UNCHANGED <<inputs, call, earlier, cache, lock, calls, session_query,
                 search_button, loaded, embeddings, waited>>

\* ----------------------------------------------------------- specifications
InitApp ==
  /\ cache = [f \in CachedFunctions |-> Absent]
  /\ lock = [f \in CachedFunctions |-> 0]
  /\ calls = [f \in CachedFunctions |-> 0]
  /\ pc = [t \in Sessions |-> Idle]
  /\ session_query = [t \in Sessions |-> <<>>]
  /\ search_button = [t \in Sessions |-> FALSE]
  /\ loaded = [t \in Sessions |-> ""]
  /\ embeddings = [t \in Sessions |-> <<>>]
  /\ waited = [t \in Sessions |-> FALSE]
  /\ page = [t \in Sessions |-> Blank]

\* the app: the sample corpus, one model, a sort that keeps equal keys in
\* index order, sessions running main
Init ==
  /\ documents = SAMPLE_DOCUMENTS(MaxDocs)
  /\ model \in Models
  /\ doc_embeddings = <<>>
  /\ argsort_ties = Identity(MaxDocs)
  /\ call = NoCall
  /\ earlier = NoCall
  /\ InitApp

Next ==
  \/ \E t \in Sessions, q \in example_queries : ClickExample(t, q)
  \/ \E t \in Sessions : ClickSearch(t)
  \/ \E t \in Sessions : Interact(t)
  \/ \E t \in Sessions, f \in CachedFunctions : CacheRead(f, t)
  \/ \E t \in Sessions, f \in CachedFunctions : CacheLock(f, t)
  \/ \E t \in Sessions, f \in CachedFunctions : CacheReread(f, t)
  \/ \E t \in Sessions, f \in CachedFunctions : CacheCompute(f, t)
  \/ \E t \in Sessions, f \in CachedFunctions : CacheWrite(f, t)
  \/ \E t \in Sessions : \E q \in Queries \cup {session_query[t]}, k \in Slider :
       SearchInput(t, q, k)

Spec == Init /\ [][Next]_vars

\* search called directly: any corpus of up to MaxDocs documents, any
\* embeddings for it, any tie order of the sort
InitSearch ==
  /\ \E n \in 0..MaxDocs :
       /\ documents = SAMPLE_DOCUMENTS(n)
       /\ doc_embeddings \in [1..n -> Vectors]
       /\ argsort_ties \in TieOrders(n)
  /\ model \in Models
  /\ call = NoCall
  /\ earlier = NoCall
  /\ InitApp

NextSearch == \E q \in Queries, k \in TopKs : SearchCall(q, k)

SpecSearch == InitSearch /\ [][NextSearch]_vars

\* search called repeatedly on one corpus embedded by one model
InitRepeat ==
  /\ \E n \in 0..MaxDocs :
       /\ documents = SAMPLE_DOCUMENTS(n)
       /\ argsort_ties \in TieOrders(n)
  /\ model \in Models
  /\ doc_embeddings = create_embeddings(model)
  /\ call = NoCall
  /\ earlier = NoCall
  /\ InitApp

NextRepeat == \E q \in Queries, k \in TopKs : SearchAgain(q, k)

SpecRepeat == InitRepeat /\ [][NextRepeat]_vars

\* ------------------------------------------------------------------- claims
\* the last direct call of search returned a list
Returns == call.made /\ call.outcome.status = "returned"
Results == call.outcome.results
Scores == call.outcome.scores
Listed == {TitleIndex(Results[p].title) : p \in 1..Len(Results)}

\* C1: for every non-empty query, every corpus of n >= 0 documents and every
\* k >= 1, search raises no error and returns exactly min(k, n) results.
C1_ResultCount ==
  (call.made /\ call.query # <<>> /\ call.top_k >= 1) =>
    /\ call.outcome.status = "returned"
    /\ Len(Results) = Min(call.top_k, Len(documents))

\* C2: in every list search returns the scores are non-increasing: for all
\* positions i < j the score at i is at least the score at j.
C2_ScoresNonIncreasing ==
  Returns =>
    \A i, j \in 1..Len(Results) :
      i < j => Results[i].similarity_score >= Results[j].similarity_score

\* a call returned two documents of different score, the later document of
\* the corpus first
C2_Witness ==
  /\ Returns
  /\ Len(Results) >= 2
  /\ Results[1].similarity_score > Results[2].similarity_score
  /\ TitleIndex(Results[1].title) > TitleIndex(Results[2].title)

\* C3: two documents of exactly equal score are returned in corpus order, the
\* one with the smaller index in documents first.  Stated for a non-empty
\* query.
C3_TiesInCorpusOrder ==
  (Returns /\ call.query # <<>>) =>
    \A i, j \in 1..Len(Results) :
      (i < j /\ Results[i].similarity_score = Results[j].similarity_score)
        => TitleIndex(Results[i].title) < TitleIndex(Results[j].title)

\* C4: for every k >= 1 no document left out of the list scores strictly
\* higher than a document in the list.
C4_TopKBest ==
  (Returns /\ call.top_k >= 1) =>
    \A d \in (1..Len(documents)) \ Listed :
      \A p \in 1..Len(Results) : Scores[d] <= Results[p].similarity_score

\* a call with k >= 1 left out a document that scores strictly lower than
\* the last one it returned, and one that comes earlier in the corpus
C4_Witness ==
  /\ Returns
  /\ call.top_k >= 1
  /\ Len(Results) >= 1
  /\ \E d \in (1..Len(documents)) \ Listed :
       /\ Scores[d] < Results[Len(Results)].similarity_score
       /\ d < TitleIndex(Results[Len(Results)].title)

\* C5: search with k = 0 fails with InvalidArgument and returns no list.
\* Stated for a non-empty query and a non-empty corpus, where nothing else
\* can make the call fail.
C5_ZeroTopKRejected ==
  (call.made /\ call.top_k = 0 /\ call.query # <<>> /\ Len(documents) >= 1) =>
    call.outcome.status = "InvalidArgument"

C9_RankIsPosition ==
  Returns => \A p \in 1..Len(Results) : Results[p].rank = p

\* a call returned at least two results, the first of them not the first
\* document of the corpus
C9_Witness ==
  /\ Returns
  /\ Len(Results) >= 2
  /\ TitleIndex(Results[1].title) # 1

\* s is a piece of body that stops at the end of a word
EndsAtWordBoundary(s, body) ==
  \E i, j \in 1..Len(body) :
    /\ s = SubSeq(body, i, j)
    /\ ~body[j].ws
    /\ (j = Len(body) \/ body[j + 1].ws)

\* C10: the text of a result record never exceeds the budget of 500
\* characters, and when the body is longer than that it stops at a whitespace
\* boundary of the body.  Stated for a non-empty query.
C10_SnippetBounded ==
  (Returns /\ call.query # <<>>) =>
    \A p \in 1..Len(Results) :
      LET body == documents[TitleIndex(Results[p].title)].content
      IN /\ StrLen(Results[p].content) <= 500
         /\ StrLen(body) > 500 =>
              EndsAtWordBoundary(Results[p].content, body)

====
